---- MODULE Spec2Model ----
(***************************************************************************)
(* Model of the contract generation route                                  *)
(*   src/frontend/src/app/api/contract/generate/route.ts                   *)
(* and of the contract page that calls it                                  *)
(*   src/frontend/src/app/contract/page.tsx                                *)
(* The POST handler parses a JSON body, validates deal_terms with six      *)
(* rules, and on success composes a contract text and a response envelope. *)
(*                                                                         *)
(* JavaScript values that may be absent are modelled as options:           *)
(* <<>> is undefined, <<v>> is the value v.  A Date's time value is an     *)
(* option as well: <<>> is NaN (Invalid Date), <<n>> is the number n.      *)
(* Time values of calendar dates are counted in days since 1970-01-01 UTC  *)
(* (getTime() / 86400000) so that they fit the checker's integers; the     *)
(* wall clock read by Date.now() is counted in milliseconds from the start *)
(* of the run.                                                             *)
(*                                                                         *)
(* A JavaScript number is a record [unit, n] that stands for n times the   *)
(* unit: "one" (n is an integer), "half" (n is odd, the value is n * 0.5)  *)
(* or "min" (n > 0 times Number.MIN_VALUE, the smallest positive double,   *)
(* whose multiples have no halves).                                        *)
(*                                                                         *)
(* pc, request, response, calls and errorLog describe one invocation of    *)
(* the handler at a time; inv describes the invocations that run           *)
(* concurrently, each with its own request and response.  The clock `now`  *)
(* is shared by all of them.  form is the state of the contract page: its  *)
(* React state and the fetch its submit handler is waiting for.            *)
(***************************************************************************)
EXTENDS Integers, Sequences, FiniteSets, TLC

VARIABLES pc, request, response, now, calls, errorLog, inv, form

vars == <<pc, request, response, now, calls, errorLog, inv, form>>

(***************************************************************************)
(* Bounds of the model.                                                    *)
(***************************************************************************)
\* longest deliverables array a request carries
MaxDeliverables == 2
\* last reading of the wall clock (milliseconds from the start of the run)
MaxClock == 1

(***************************************************************************)
(* JavaScript values.                                                      *)
(***************************************************************************)
Undefined == <<>>
Some(v) == <<v>>
NaN == <<>>

\* mutant of Falsy: only a missing field counts (x === undefined)
Falsy_OnlyUndefined(x) == x = Undefined

\* !x for a string-or-undefined field: undefined and "" are falsy
Falsy(x) == x = Undefined \/ x[1] = ""

\* a < b on two time values: a comparison with NaN is false
Lt(a, b) == a # NaN /\ b # NaN /\ a[1] < b[1]

\* new Date(s).getTime() for a string-or-undefined s
DateParse(s) ==
    IF s = Undefined THEN NaN
    ELSE CASE s[1] = "2024-08-01" -> Some(19936)
           [] s[1] = "2024-08-10" -> Some(19945)
           [] s[1] = "2024-08-31" -> Some(19966)
           [] OTHER -> NaN

\* new Date(s).toLocaleDateString("en-US", {year, month: "long", day})
\* (the server's time zone is taken to be UTC)
formatDate(s) ==
    LET t == DateParse(s)
    IN  IF t = NaN THEN "Invalid Date"
        ELSE CASE t[1] = 19936 -> "August 1, 2024"
               [] t[1] = 19945 -> "August 10, 2024"
               [] t[1] = 19966 -> "August 31, 2024"

(***************************************************************************)
(* Number formatting.                                                      *)
(***************************************************************************)
Pad3(n) ==
    IF n < 10 THEN "00" \o ToString(n)
    ELSE IF n < 100 THEN "0" \o ToString(n)
    ELSE ToString(n)

RECURSIVE GroupDigits(_)
GroupDigits(n) ==
    IF n < 1000 THEN ToString(n)
    ELSE GroupDigits(n \div 1000) \o "," \o Pad3(n % 1000)

\* the number n, for an integer n
Num(n) == [unit |-> "one", n |-> n]

\* n times Number.MIN_VALUE, for an integer n >= 0
Tiny(n) == IF n = 0 THEN Num(0) ELSE [unit |-> "min", n |-> n]

\* the text of an integer n, en-US grouping
intToLocaleString(n) ==
    IF n < 0 THEN "-" \o GroupDigits(0 - n) ELSE GroupDigits(n)

\* the text of n * 0.5 for an integer n
halfToLocaleString(n) ==
    LET m == IF n < 0 THEN 0 - n ELSE n
        whole == GroupDigits(m \div 2) \o (IF m % 2 = 1 THEN ".5" ELSE "")
    IN  IF n < 0 THEN "-" \o whole ELSE whole

\* x.toLocaleString() for a number x: at most three fraction digits, so a
\* multiple of Number.MIN_VALUE prints as 0
toLocaleString(x) ==
    CASE x.unit = "one" -> intToLocaleString(x.n)
      [] x.unit = "half" -> halfToLocaleString(x.n)
      [] x.unit = "min" -> "0"

\* mutant of MulHalf: the half is truncated to an integer
MulHalf_Truncated(x) ==
    CASE x.unit = "one" -> Num(x.n \div 2)
      [] x.unit = "min" -> Tiny(x.n \div 2)

\* x * 0.5 for a number x: exact for an integer, rounded to the nearest
\* multiple of Number.MIN_VALUE (ties to even) for a multiple of it
MulHalf(x) ==
    CASE x.unit = "one" ->
             IF x.n % 2 = 0 THEN Num(x.n \div 2)
             ELSE [unit |-> "half", n |-> x.n]
      [] x.unit = "min" ->
             LET q == x.n \div 2
             IN  IF x.n % 2 = 0 THEN Tiny(q)
                 ELSE IF q % 2 = 0 THEN Tiny(q) ELSE Tiny(q + 1)

(***************************************************************************)
(* Contract ID.                                                            *)
(***************************************************************************)
Digits36 ==
    <<"0", "1", "2", "3", "4", "5", "6", "7", "8", "9", "a", "b", "c", "d",
      "e", "f", "g", "h", "i", "j", "k", "l", "m", "n", "o", "p", "q", "r",
      "s", "t", "u", "v", "w", "x", "y", "z">>

UpperDigits36 ==
    <<"0", "1", "2", "3", "4", "5", "6", "7", "8", "9", "A", "B", "C", "D",
      "E", "F", "G", "H", "I", "J", "K", "L", "M", "N", "O", "P", "Q", "R",
      "S", "T", "U", "V", "W", "X", "Y", "Z">>

\* (n).toString(36) as a sequence of characters
RECURSIVE toString36(_)
toString36(n) ==
    IF n < 36 THEN <<Digits36[n + 1]>>
    ELSE toString36(n \div 36) \o <<Digits36[(n % 36) + 1]>>

\* toUpperCase() of one character
UpperChar(c) ==
    IF \E i \in 1..36 : Digits36[i] = c
    THEN UpperDigits36[CHOOSE i \in 1..36 : Digits36[i] = c]
    ELSE c

\* toUpperCase() of a sequence of characters
toUpperCase(s) == [i \in 1..Len(s) |-> UpperChar(s[i])]

\* outcomes of Math.random().toString(36).substring(2, 8): up to six
\* base-36 digits (fewer when the fraction is short, as for 0.5 = "0.i")
RandomStrs == {<<"i">>, <<"4", "f", "z", "0", "q", "k">>}

\* mutant of generateContractId: the timestamp is left out of the ID
generateContractId_NoTimestamp(t, r) ==
    toUpperCase(<<"C", "O", "N", "T", "R", "A", "C", "T", "-">> \o r)

\* generateContractId() with Date.now() = t and the random digits r
generateContractId(t, r) ==
    toUpperCase(<<"C", "O", "N", "T", "R", "A", "C", "T", "-">>
                \o toString36(t) \o <<"-">> \o r)

\* new Date().toISOString() when the clock reads t (the run starts at
\* 2024-07-01T00:00:00.000Z)
toISOString(t) == "2024-07-01T00:00:00." \o Pad3(t) \o "Z"

(***************************************************************************)
(* Contract text: a sequence of lines, each line a sequence of segments    *)
(* (the literal parts of the template and the interpolated values).        *)
(***************************************************************************)
\* `${x}` for a string-or-undefined x
Interp(x) == IF x = Undefined THEN "undefined" ELSE x[1]

\* mutant of DeliverableEntry: every entry is stamped with the current time
DeliverableEntry_Stamped(deliverable, index) ==
    << <<"">>,
       <<ToString(index + 1), ". ", deliverable.type, " (Quantity: ",
         ToString(deliverable.quantity), ")">>,
       <<"   Description: ", deliverable.description>>,
       <<"   Due Date: ", formatDate(Some(deliverable.due_date)),
         " (as of ", toISOString(now), ")">> >>

\* mutant of DeliverableEntry: the entry is numbered index, not index + 1
DeliverableEntry_ZeroBased(deliverable, index) ==
    << <<"">>,
       <<ToString(index), ". ", deliverable.type, " (Quantity: ",
         ToString(deliverable.quantity), ")">>,
       <<"   Description: ", deliverable.description>>,
       <<"   Due Date: ", formatDate(Some(deliverable.due_date))>> >>

\* one element of deliverables.map(...): the entry starts with a newline
DeliverableEntry(deliverable, index) ==
    << <<"">>,
       <<ToString(index + 1), ". ", deliverable.type, " (Quantity: ",
         ToString(deliverable.quantity), ")">>,
       <<"   Description: ", deliverable.description>>,
       <<"   Due Date: ", formatDate(Some(deliverable.due_date))>> >>

\* deliverables.map(...).join("\n"), from element k on
RECURSIVE deliverablesList(_, _)
deliverablesList(deliverables, k) ==
    IF k > Len(deliverables) THEN <<>>
    ELSE DeliverableEntry(deliverables[k], k - 1)
         \o deliverablesList(deliverables, k + 1)

\* generateContractText throws a TypeError when total_fee is undefined
\* (total_fee.toLocaleString() at the first use of total_fee)
ComposeThrows(dealTerms) == dealTerms.total_fee = Undefined

\* generateContractText(dealTerms), where the embedded generateContractId()
\* reads the clock at tId and draws rId, and new Date() reads tGen
generateContractText(dealTerms, tId, rId, tGen) ==
    LET formattedStartDate == formatDate(dealTerms.start_date)
        formattedEndDate == formatDate(dealTerms.end_date)
        brand_name == Interp(dealTerms.brand_name)
        influencer_name == Interp(dealTerms.influencer_name)
        platform == Interp(dealTerms.platform)
        campaign_name == Interp(dealTerms.campaign_name)
        total_fee == dealTerms.total_fee[1]
    IN  << <<"INFLUENCER MARKETING AGREEMENT">>,
           <<"">>,
           <<"This Agreement is made and entered into on ",
             formattedStartDate, " by and between:">>,
           <<"">>,
           <<brand_name, " (\"Brand\")">>,
           <<"and">>,
           <<influencer_name, " (\"Influencer\")">>,
           <<"">>,
           <<"WHEREAS, Brand desires to engage Influencer for marketing services related to the campaign \"",
             campaign_name, "\" on the ", platform, " platform;">>,
           <<"">>,
           <<"NOW, THEREFORE, in consideration of the mutual promises and covenants contained herein, the parties agree as follows:">>,
           <<"">>,
           <<"1. CAMPAIGN DETAILS">>,
           <<"   Campaign Name: ", campaign_name>>,
           <<"   Platform: ", platform>>,
           <<"   Campaign Period: ", formattedStartDate, " to ",
             formattedEndDate>>,
           <<"   Total Compensation: $", toLocaleString(total_fee)>>,
           <<"">>,
           <<"2. DELIVERABLES">>,
           <<"   The Influencer agrees to provide the following deliverables:">> >>
        \o deliverablesList(dealTerms.deliverables[1], 1)
        \o
        << <<"">>,
           <<"3. COMPENSATION">>,
           <<"   The Brand agrees to pay the Influencer a total fee of $",
             toLocaleString(total_fee),
             " for the services rendered under this Agreement.">>,
           <<"   Payment Schedule:">>,
           <<"   - 50% ($", toLocaleString(MulHalf(total_fee)),
             ") upon signing of this Agreement">>,
           <<"   - 50% ($", toLocaleString(MulHalf(total_fee)),
             ") upon completion of all deliverables">>,
           <<"">>,
           <<"4. CONTENT GUIDELINES">>,
           <<"   - All content must be original and created specifically for this campaign">>,
           <<"   - Content must comply with ", platform, "'s terms of service">>,
           <<"   - Brand reserves the right to review and approve all content before posting">>,
           <<"   - Influencer must disclose the sponsored nature of the content as per FTC guidelines">>,
           <<"">>,
           <<"5. INTELLECTUAL PROPERTY">>,
           <<"   - Brand grants Influencer a limited license to use Brand's trademarks and materials for the campaign">>,
           <<"   - Influencer retains ownership of their content, but grants Brand a perpetual license to use the content">>,
           <<"   - Brand may repurpose the content for marketing purposes with proper attribution">>,
           <<"">>,
           <<"6. CONFIDENTIALITY">>,
           <<"   - Influencer agrees to keep all campaign details and Brand information confidential">>,
           <<"   - This obligation survives the termination of this Agreement">>,
           <<"">>,
           <<"7. TERMINATION">>,
           <<"   - Either party may terminate this Agreement with 30 days written notice">>,
           <<"   - Brand may terminate immediately for breach of content guidelines">>,
           <<"   - Upon termination, Influencer will be compensated for completed deliverables">>,
           <<"">>,
           <<"8. GOVERNING LAW">>,
           <<"   This Agreement shall be governed by and construed in accordance with the laws of the state of [State], without regard to its conflict of law principles.">>,
           <<"">>,
           <<"IN WITNESS WHEREOF, the parties have executed this Agreement as of the date first written above.">>,
           <<"">>,
           <<"BRAND:">>,
           <<brand_name>>,
           <<"By: ________________________">>,
           <<"Date: ", formattedStartDate>>,
           <<"">>,
           <<"INFLUENCER:">>,
           <<influencer_name>>,
           <<"By: ________________________">>,
           <<"Date: ", formattedStartDate>>,
           <<"">>,
           <<"Contract ID: ">> \o generateContractId(tId, rId),
           <<"Generated on: ", toISOString(tGen)>> >>

(***************************************************************************)
(* Responses.  A field the body does not carry is Undefined.               *)
(***************************************************************************)
\* NextResponse.json({ error: message }, { status })
ErrorResponse(status, message) ==
    [status |-> status,
     error |-> Some(message),
     contract_text |-> Undefined,
     contract_id |-> Undefined,
     contract_status |-> Undefined,
     generated_at |-> Undefined]

\* mutant of SuccessResponse: the contract is returned as final
SuccessResponse_Final(contractText, contractId, generatedAt) ==
    [status |-> 200,
     error |-> Undefined,
     contract_text |-> Some(contractText),
     contract_id |-> Some(contractId),
     contract_status |-> Some("final"),
     generated_at |-> Some(generatedAt)]

\* NextResponse.json(response): status 200 and the ContractResponse fields
SuccessResponse(contractText, contractId, generatedAt) ==
    [status |-> 200,
     error |-> Undefined,
     contract_text |-> Some(contractText),
     contract_id |-> Some(contractId),
     contract_status |-> Some("draft"),
     generated_at |-> Some(generatedAt)]

NoResponse ==
    [status |-> 0,
     error |-> Undefined,
     contract_text |-> Undefined,
     contract_id |-> Undefined,
     contract_status |-> Undefined,
     generated_at |-> Undefined]

\* what one run of the handler did: its response, how often it called
\* generateContractId and generateContractText, and whether it logged
Outcome(resp, idCalls, textCalls, logged) ==
    [response |-> resp, idCalls |-> idCalls, textCalls |-> textCalls,
     logged |-> logged]

\* mutant of Caught: the message of the caught error is sent to the caller
Caught_ExposesDetail(idCalls, textCalls) ==
    Outcome(ErrorResponse(500, "TypeError: Cannot read properties of undefined"),
            idCalls, textCalls, TRUE)

\* the catch block: console.error and the generic 500 response
Caught(idCalls, textCalls) ==
    Outcome(ErrorResponse(500, "Failed to generate contract"),
            idCalls, textCalls, TRUE)

\* mutant of Rejected: 422 in place of 400
Rejected_Unprocessable(message) ==
    Outcome(ErrorResponse(422, message), 0, 0, FALSE)

\* a validation rejection: the 400 response with the rule's message
Rejected(message) == Outcome(ErrorResponse(400, message), 0, 0, FALSE)

(***************************************************************************)
(* The POST handler.                                                       *)
(***************************************************************************)
\* mutant of MissingRequired: a module-level flag turns a request away
\* while another invocation is in flight
MissingRequired_Busy(deal_terms) ==
    \/ Falsy(deal_terms.brand_name)
    \/ Falsy(deal_terms.influencer_name)
    \/ Falsy(deal_terms.platform)
    \/ Cardinality({ i \in DOMAIN inv : inv[i].pc = "awaiting_json" }) > 1

\* mutant of MissingRequired: a total_fee that is not positive is rejected too
MissingRequired_OrFee(deal_terms) ==
    \/ Falsy(deal_terms.brand_name)
    \/ Falsy(deal_terms.influencer_name)
    \/ Falsy(deal_terms.platform)
    \/ deal_terms.total_fee = Undefined
    \/ deal_terms.total_fee[1].n <= 0

\* !deal_terms.brand_name || !deal_terms.influencer_name || !deal_terms.platform
MissingRequired(deal_terms) ==
    \/ Falsy(deal_terms.brand_name)
    \/ Falsy(deal_terms.influencer_name)
    \/ Falsy(deal_terms.platform)

\* mutant of InvalidDates: the end date is not looked at
InvalidDates_StartOnly(startDate, endDate) == startDate = NaN

\* mutant of InvalidDates: && in place of ||
InvalidDates_Both(startDate, endDate) == startDate = NaN /\ endDate = NaN

\* isNaN(startDate.getTime()) || isNaN(endDate.getTime())
InvalidDates(startDate, endDate) == startDate = NaN \/ endDate = NaN

\* mutant of EndBeforeStart: <= in place of <
EndBeforeStart_OrEqual(startDate, endDate) ==
    startDate # NaN /\ endDate # NaN /\ endDate[1] <= startDate[1]

\* endDate < startDate
EndBeforeStart(startDate, endDate) == Lt(endDate, startDate)

\* mutant of NoDeliverables: length < 0 in place of !length
NoDeliverables_Negative(deliverables) == Len(deliverables) < 0

\* !deal_terms.deliverables.length
NoDeliverables(deliverables) == Len(deliverables) = 0

\* mutant of DueOutOfPeriod: <= and >= in place of < and >
DueOutOfPeriod_Exclusive(dueDate, startDate, endDate) ==
    /\ dueDate # NaN /\ startDate # NaN /\ endDate # NaN
    /\ (dueDate[1] <= startDate[1] \/ dueDate[1] >= endDate[1])

\* mutant of DueOutOfPeriod: the end of the period is not looked at
DueOutOfPeriod_StartOnly(dueDate, startDate, endDate) ==
    dueDate # NaN /\ startDate # NaN /\ dueDate[1] < startDate[1]

\* dueDate < startDate || dueDate > endDate
DueOutOfPeriod(dueDate, startDate, endDate) ==
    Lt(dueDate, startDate) \/ Lt(endDate, dueDate)

\* mutant of ValidateDeliverableDates: every due date is parsed before any
\* is compared with the campaign period (two loops in place of one)
ValidateDeliverableDates_TwoLoops(deliverables, k, startDate, endDate) ==
    IF \E j \in k..Len(deliverables) :
          DateParse(Some(deliverables[j].due_date)) = NaN
    THEN "Invalid deliverable due date"
    ELSE IF \E j \in k..Len(deliverables) :
          LET dueDate == DateParse(Some(deliverables[j].due_date))
          IN  startDate # NaN /\ endDate # NaN
              /\ (dueDate[1] < startDate[1] \/ dueDate[1] > endDate[1])
    THEN "Deliverable due date must be within campaign period"
    ELSE ""

\* mutant of ValidateDeliverableDates: only deliverables[k] is checked
ValidateDeliverableDates_FirstOnly(deliverables, k, startDate, endDate) ==
    IF k > Len(deliverables) THEN ""
    ELSE LET dueDate == DateParse(Some(deliverables[k].due_date))
         IN  IF dueDate = NaN
             THEN "Invalid deliverable due date"
             ELSE IF Lt(dueDate, startDate) \/ Lt(endDate, dueDate)
             THEN "Deliverable due date must be within campaign period"
             ELSE ""

\* the loop over deal_terms.deliverables from element k on: the message of
\* the first failing check, or "" when the loop runs to its end
RECURSIVE ValidateDeliverableDates(_, _, _, _)
ValidateDeliverableDates(deliverables, k, startDate, endDate) ==
    IF k > Len(deliverables) THEN ""
    ELSE LET dueDate == DateParse(Some(deliverables[k].due_date))
         IN  IF dueDate = NaN
             THEN "Invalid deliverable due date"
             ELSE IF DueOutOfPeriod(dueDate, startDate, endDate)
             THEN "Deliverable due date must be within campaign period"
             ELSE ValidateDeliverableDates(deliverables, k + 1,
                                           startDate, endDate)

\* the outcome of a run that passed every check and goes on to generate
Passed == Outcome(NoResponse, 0, 0, FALSE)

\* POST from the settled request.json() to the end of the validation: the
\* outcome of the early return or of the exception, or Passed
Validate(body) ==
    IF ~body.json_ok \/ body.deal_terms = Undefined
    THEN \* request.json() rejects, or deal_terms.brand_name on undefined
         Caught(0, 0)
    ELSE
    LET deal_terms == body.deal_terms[1]
        startDate == DateParse(deal_terms.start_date)
        endDate == DateParse(deal_terms.end_date)
    IN  IF MissingRequired(deal_terms)
        THEN Rejected("Missing required fields")
        ELSE IF InvalidDates(startDate, endDate)
        THEN Rejected("Invalid date format")
        ELSE IF EndBeforeStart(startDate, endDate)
        THEN Rejected("End date must be after start date")
        ELSE IF deal_terms.deliverables = Undefined
        THEN \* deal_terms.deliverables.length on undefined
             Caught(0, 0)
        ELSE IF NoDeliverables(deal_terms.deliverables[1])
        THEN Rejected("At least one deliverable is required")
        ELSE LET message ==
                     ValidateDeliverableDates(deal_terms.deliverables[1], 1,
                                              startDate, endDate)
             IN  IF message # "" THEN Rejected(message) ELSE Passed

\* POST after the validation: the handler's own generateContractId() reads
\* the clock at t1 and draws r1, generateContractText's reads t2, draws r2
\* and reads t3 for its footer, and the envelope's new Date() reads t4
Generate(deal_terms, t1, r1, t2, r2, t3, t4) ==
    IF ComposeThrows(deal_terms)
    THEN Caught(1, 1)
    ELSE Outcome(SuccessResponse(generateContractText(deal_terms, t2, r2, t3),
                                 generateContractId(t1, r1),
                                 toISOString(t4)),
                 2, 1, FALSE)

(***************************************************************************)
(* Requests.                                                               *)
(***************************************************************************)
BrandInputs == {Undefined, Some(""), Some("EcoStyle Apparel")}
InfluencerInputs == {Some(""), Some("Jamie Lee")}
PlatformInputs == {Undefined, Some("Instagram")}

StartDateInputs == {Undefined, Some("2024-08-10"), Some("2024-08-31")}
EndDateInputs == {Some("not-a-date"), Some("2024-08-10"), Some("2024-08-31")}

DueDateInputs == {"", "2024-08-01", "2024-08-10", "2024-08-31"}

DueDateLists == UNION { [1..n -> DueDateInputs] : n \in 0..MaxDeliverables }

\* the fields the handler does not validate: all filled in, or one of them
\* empty, zero or missing
FilledIn ==
    [campaign_name |-> Some("Sustainable Summer Collection"),
     total_fee |-> Some(Num(3500)),
     type |-> "Instagram Reel",
     description |-> "Launch video",
     quantity |-> 2]

LooseFieldInputs ==
    { FilledIn,
      [FilledIn EXCEPT !.campaign_name = Some("")],
      [FilledIn EXCEPT !.total_fee = Some(Num(0))],
      [FilledIn EXCEPT !.total_fee = Undefined],
      [FilledIn EXCEPT !.type = ""],
      [FilledIn EXCEPT !.description = ""],
      [FilledIn EXCEPT !.quantity = 0] }

\* the deliverables with the due dates `dues`, the other fields from l
Deliverables(dues, l) ==
    [k \in 1..Len(dues) |->
        [type |-> l.type, description |-> l.description,
         quantity |-> l.quantity, due_date |-> dues[k]]]

DealTermsInputs ==
    { [brand_name |-> b, influencer_name |-> i, platform |-> p,
       campaign_name |-> l.campaign_name, total_fee |-> l.total_fee,
       deliverables |-> IF d = Undefined THEN Undefined
                        ELSE Some(Deliverables(d[1], l)),
       start_date |-> s, end_date |-> e] :
          b \in BrandInputs,
          i \in InfluencerInputs,
          p \in PlatformInputs,
          s \in StartDateInputs,
          e \in EndDateInputs,
          l \in LooseFieldInputs,
          d \in {Undefined} \cup { Some(dues) : dues \in DueDateLists } }

\* a body that is not JSON, a JSON body without deal_terms, and the bodies
\* that carry a deal_terms object
BodyInputs ==
    { [json_ok |-> FALSE, deal_terms |-> Undefined],
      [json_ok |-> TRUE, deal_terms |-> Undefined] }
    \cup { [json_ok |-> TRUE, deal_terms |-> Some(dt)] : dt \in DealTermsInputs }

NoRequest == [json_ok |-> FALSE, deal_terms |-> Undefined]

(***************************************************************************)
(* The contract page (page.tsx): its state and its validation.             *)
(* The fields of the form's dealTerms are strings and numbers, never       *)
(* undefined; contractResponse and error are null (Undefined) or a value.  *)
(* validationErrors is a JavaScript object: a function from the keys it    *)
(* owns to a message <<m>> or to undefined <<>>.                           *)
(***************************************************************************)
TextFields == {"brand_name", "influencer_name", "platform", "campaign_name"}

ErrorKeys == TextFields \cup {"start_date", "end_date", "total_fee", "deliverables"}

\* s.trim() on the strings the form is given: the strings of white space
\* become "", the others have no white space at their ends
Trim(s) == IF s \in {"", " ", "  "} THEN "" ELSE s

\* the deliverable of useState and of resetForm and addDeliverable
BlankDeliverable ==
    [type |-> "", description |-> "", quantity |-> 1, due_date |-> ""]

\* the dealTerms of useState and of resetForm
BlankDealTerms ==
    [brand_name |-> "",
     influencer_name |-> "",
     platform |-> "",
     campaign_name |-> "",
     total_fee |-> Num(0),
     deliverables |-> <<BlankDeliverable>>,
     start_date |-> "",
     end_date |-> ""]

\* the object {}
NoErrors == [k \in {} |-> Undefined]

\* no fetch is awaited
NoFetch == [pc |-> "none", body |-> NoRequest, reply |-> NoResponse]

\* the page after its first render; inFlight counts the runs of
\* handleGenerateContract that are past their fetch and not yet finished,
\* sent the requests issued since the last submit
FormInit ==
    [dealTerms |-> BlankDealTerms,
     contractResponse |-> Undefined,
     loading |-> FALSE,
     error |-> Undefined,
     activeSection |-> "editor",
     validationErrors |-> NoErrors,
     formSubmitted |-> FALSE,
     net |-> NoFetch,
     inFlight |-> 0,
     sent |-> 0]

\* parseInt(text) for a text of decimal digits
RECURSIVE parseDigits(_, _)
parseDigits(text, acc) ==
    IF text = <<>> THEN acc
    ELSE LET digit == CHOOSE n \in 0..9 : ToString(n) = Head(text)
         IN  parseDigits(Tail(text), 10 * acc + digit)

\* e.target.value === "" ? 0 : parseInt(e.target.value), for the text of a
\* number input (a sequence of digit characters)
TypedNumber(text) == IF text = <<>> THEN 0 ELSE parseDigits(text, 0)

\* mutant of FeeNotPositive: a fee of zero is let through
FeeNotPositive_Negative(total_fee) == total_fee.n < 0

\* dealTerms.total_fee <= 0
FeeNotPositive(total_fee) == total_fee.n <= 0

\* !d.type.trim() || !d.description.trim() || !d.due_date || d.quantity <= 0
IncompleteDeliverable(d) ==
    \/ Trim(d.type) = ""
    \/ Trim(d.description) = ""
    \/ d.due_date = ""
    \/ d.quantity <= 0

\* dealTerms.deliverables.some(incomplete)
hasInvalidDeliverable(deliverables) ==
    \E k \in 1..Len(deliverables) : IncompleteDeliverable(deliverables[k])

\* new Date(startDate) > new Date(endDate)
StartAfterEnd(startDate, endDate) ==
    Lt(DateParse(Some(endDate)), DateParse(Some(startDate)))

\* the message validateForm stores under `key`, Undefined when it stores none
FormError(dealTerms, key) ==
    CASE key = "brand_name" ->
            IF Trim(dealTerms.brand_name) = ""
            THEN Some("Brand name is required") ELSE Undefined
      [] key = "influencer_name" ->
            IF Trim(dealTerms.influencer_name) = ""
            THEN Some("Influencer name is required") ELSE Undefined
      [] key = "platform" ->
            IF Trim(dealTerms.platform) = ""
            THEN Some("Platform is required") ELSE Undefined
      [] key = "campaign_name" ->
            IF Trim(dealTerms.campaign_name) = ""
            THEN Some("Campaign name is required") ELSE Undefined
      [] key = "start_date" ->
            IF dealTerms.start_date = ""
            THEN Some("Start date is required") ELSE Undefined
      [] key = "end_date" ->
            IF dealTerms.end_date = ""
            THEN Some("End date is required")
            ELSE IF /\ dealTerms.start_date # ""
                    /\ StartAfterEnd(dealTerms.start_date, dealTerms.end_date)
            THEN Some("End date must be after start date")
            ELSE Undefined
      [] key = "total_fee" ->
            IF FeeNotPositive(dealTerms.total_fee)
            THEN Some("Total fee must be greater than zero") ELSE Undefined
      [] key = "deliverables" ->
            IF Len(dealTerms.deliverables) = 0
            THEN Some("At least one deliverable is required")
            ELSE IF hasInvalidDeliverable(dealTerms.deliverables)
            THEN Some("All deliverables must have complete information")
            ELSE Undefined

\* validateForm(): the errors object for dealTerms
validateForm(dealTerms) ==
    LET keys == { k \in ErrorKeys : FormError(dealTerms, k) # Undefined }
    IN  [k \in keys |-> FormError(dealTerms, k)]

\* {...prev, [key]: value}
Spread(prev, key, value) ==
    [k \in DOMAIN prev \cup {key} |-> IF k = key THEN value ELSE prev[k]]

\* Object.keys(errors).length > 0
HasErrors(errors) == Cardinality(DOMAIN errors) > 0

\* validationErrors[key] is truthy
Shown(errors, key) == key \in DOMAIN errors /\ errors[key] # Undefined

\* mutant of SubmitEnabled: the button stays enabled while loading
SubmitEnabled_WhileLoading(f) ==
    ~(f.formSubmitted /\ HasErrors(f.validationErrors))

\* the submit button is not disabled:
\* disabled={loading || (formSubmitted && Object.keys(validationErrors).length > 0)}
SubmitEnabled(f) ==
    ~(f.loading \/ (f.formSubmitted /\ HasErrors(f.validationErrors)))

\* mutant of PreviewEnabled: the Preview button is never disabled
PreviewEnabled_Always(f) == f.activeSection \in {"editor", "preview"}

\* the Preview button is not disabled: disabled={!contractResponse}
PreviewEnabled(f) == f.contractResponse # Undefined

\* mutant of RemoveOffered: the remove button is rendered for every deliverable
RemoveOffered_Always(deliverables) == Len(deliverables) > 0

\* the remove buttons are rendered: dealTerms.deliverables.length > 1
RemoveOffered(deliverables) == Len(deliverables) > 1

\* JSON.stringify({ deal_terms: dealTerms }) as request.json() reads it
RequestBody(dealTerms) ==
    [json_ok |-> TRUE,
     deal_terms |-> Some([brand_name |-> Some(dealTerms.brand_name),
                          influencer_name |-> Some(dealTerms.influencer_name),
                          platform |-> Some(dealTerms.platform),
                          campaign_name |-> Some(dealTerms.campaign_name),
                          total_fee |-> Some(dealTerms.total_fee),
                          deliverables |-> Some(dealTerms.deliverables),
                          start_date |-> Some(dealTerms.start_date),
                          end_date |-> Some(dealTerms.end_date)])]

(***************************************************************************)
(* The state machine: a request arrives and the handler waits for          *)
(* request.json(); POST runs the rest of the handler in one step; the      *)
(* response is sent and the route is ready for the next request.           *)
(***************************************************************************)
NoCalls == [idCalls |-> 0, textCalls |-> 0]

\* the invocations of POST that may be in flight together
Invocations == {"first", "second"}

\* an invocation that has not been made: no request, no response, and no
\* clock reading t and random digits r drawn for its contract_id
Idle ==
    [pc |-> "idle", request |-> NoRequest, response |-> NoResponse,
     t |-> 0, r |-> <<>>]

Init ==
    /\ pc = "idle"
    /\ request = NoRequest
    /\ response = NoResponse
    /\ now = 0
    /\ calls = NoCalls
    /\ errorLog = 0
    /\ inv = [i \in Invocations |-> Idle]
    /\ form = FormInit

\* a client sends `body`; the handler is invoked and awaits request.json()
Arrive ==
    /\ pc = "idle"
    /\ \E body \in BodyInputs : request' = body
    /\ pc' = "awaiting_json"
    /\ response' = NoResponse
    /\ calls' = NoCalls
    /\ errorLog' = 0
    /\ UNCHANGED <<now, inv, form>>

\* the handler runs from the settled request.json() to its return; `now`
\* is the last reading of the clock the program took
POST ==
    /\ pc = "awaiting_json"
    /\ LET v == Validate(request)
       IN  IF v # Passed
           THEN /\ response' = v.response
                /\ calls' = [idCalls |-> v.idCalls, textCalls |-> v.textCalls]
                /\ errorLog' = IF v.logged THEN 1 ELSE 0
                /\ now' = now
           ELSE \E r1 \in RandomStrs, r2 \in RandomStrs :
                \E t1 \in now..MaxClock : \E t2 \in t1..MaxClock :
                \E t3 \in t2..MaxClock : \E t4 \in t3..MaxClock :
                   LET o == Generate(request.deal_terms[1],
                                     t1, r1, t2, r2, t3, t4)
                   IN  /\ response' = o.response
                       /\ calls' = [idCalls |-> o.idCalls,
                                    textCalls |-> o.textCalls]
                       /\ errorLog' = IF o.logged THEN 1 ELSE 0
                       /\ now' = t4
    /\ pc' = "responded"
    /\ UNCHANGED <<request, inv, form>>

\* the response has been sent; the route waits for the next request
Done ==
    /\ pc = "responded"
    /\ pc' = "idle"
    /\ request' = NoRequest
    /\ response' = NoResponse
    /\ calls' = NoCalls
    /\ errorLog' = 0
    /\ UNCHANGED <<now, inv, form>>

Next == Arrive \/ POST \/ Done

Spec == Init /\ [][Next]_vars

(***************************************************************************)
(* The handler on requests that pass the validation, with a range of fees  *)
(* and of deliverables that differ from one another.                       *)
(***************************************************************************)
FeeInputs ==
    {Num(0), Num(0 - 500), Num(3500), Num(3501), Num(1234567),
     Tiny(1), Tiny(2), Tiny(3)}

TermsDeliverableInputs ==
    { [type |-> "Instagram Reel", description |-> "Launch video",
       quantity |-> 2, due_date |-> "2024-08-10"],
      [type |-> "Instagram Story", description |-> "Behind the scenes",
       quantity |-> 1, due_date |-> "2024-08-01"],
      [type |-> "Blog Post", description |-> "Product review",
       quantity |-> 3, due_date |-> "2024-08-31"] }

TermsInputs ==
    { [brand_name |-> Some("EcoStyle Apparel"),
       influencer_name |-> Some("Jamie Lee"),
       platform |-> Some("Instagram"),
       campaign_name |-> Some("Sustainable Summer Collection"),
       total_fee |-> Some(f),
       deliverables |-> Some(ds),
       start_date |-> Some("2024-08-01"),
       end_date |-> Some("2024-08-31")] :
          f \in FeeInputs,
          ds \in UNION { [1..n -> TermsDeliverableInputs] :
                            n \in 1..MaxDeliverables } }

\* a client sends one of these deal terms; the handler awaits request.json()
ArriveTerms ==
    /\ pc = "idle"
    /\ \E dt \in TermsInputs :
          request' = [json_ok |-> TRUE, deal_terms |-> Some(dt)]
    /\ pc' = "awaiting_json"
    /\ response' = NoResponse
    /\ calls' = NoCalls
    /\ errorLog' = 0
    /\ UNCHANGED <<now, inv, form>>

NextTerms == ArriveTerms \/ POST \/ Done

SpecTerms == Init /\ [][NextTerms]_vars

(***************************************************************************)
(* Concurrent invocations.  The handler suspends only at                   *)
(* await request.json(); from there to its return it runs without          *)
(* interruption, so an invocation is two steps that interleave with the    *)
(* steps of the others.                                                    *)
(***************************************************************************)
Scenario1 ==
    [brand_name |-> Some("EcoStyle Apparel"),
     influencer_name |-> Some("Jamie Lee"),
     platform |-> Some("Instagram"),
     campaign_name |-> Some("Sustainable Summer Collection"),
     total_fee |-> Some(Num(3500)),
     deliverables |-> Some(<< [type |-> "Instagram Reel",
                               description |-> "Launch video",
                               quantity |-> 2,
                               due_date |-> "2024-08-10"] >>),
     start_date |-> Some("2024-08-10"),
     end_date |-> Some("2024-08-31")]

\* a body that is not JSON, two requests that pass the validation, one that
\* is rejected and one on which the composer throws
CallBodyInputs ==
    { [json_ok |-> FALSE, deal_terms |-> Undefined],
      [json_ok |-> TRUE, deal_terms |-> Some(Scenario1)],
      [json_ok |-> TRUE,
       deal_terms |-> Some([Scenario1 EXCEPT !.total_fee = Some(Num(3501))])],
      [json_ok |-> TRUE,
       deal_terms |-> Some([Scenario1 EXCEPT !.brand_name = Some("")])],
      [json_ok |-> TRUE,
       deal_terms |-> Some([Scenario1 EXCEPT !.total_fee = Undefined])] }

\* invocation i is made with `body` and awaits request.json()
CallArrive(i) ==
    /\ inv[i].pc = "idle"
    /\ \E body \in CallBodyInputs :
          inv' = [inv EXCEPT ![i] = [Idle EXCEPT !.pc = "awaiting_json",
                                                !.request = body]]
    /\ UNCHANGED <<pc, request, response, now, calls, errorLog, form>>

\* invocation i runs from the settled request.json() to its return; t and r
\* keep the clock reading and the random digits of its contract_id
CallPOST(i) ==
    /\ inv[i].pc = "awaiting_json"
    /\ LET v == Validate(inv[i].request)
       IN  IF v # Passed
           THEN /\ inv' = [inv EXCEPT ![i].pc = "responded",
                                      ![i].response = v.response]
                /\ now' = now
           ELSE \E r1 \in RandomStrs, r2 \in RandomStrs :
                \E t1 \in now..MaxClock : \E t2 \in t1..MaxClock :
                \E t3 \in t2..MaxClock : \E t4 \in t3..MaxClock :
                   LET o == Generate(inv[i].request.deal_terms[1],
                                     t1, r1, t2, r2, t3, t4)
                   IN  /\ inv' = [inv EXCEPT ![i].pc = "responded",
                                             ![i].response = o.response,
                                             ![i].t = t1,
                                             ![i].r = r1]
                       /\ now' = t4
    /\ UNCHANGED <<pc, request, response, calls, errorLog, form>>

\* the response of invocation i has been sent
CallDone(i) ==
    /\ inv[i].pc = "responded"
    /\ inv' = [inv EXCEPT ![i] = Idle]
    /\ UNCHANGED <<pc, request, response, now, calls, errorLog, form>>

NextCalls ==
    \E i \in Invocations : CallArrive(i) \/ CallPOST(i) \/ CallDone(i)

SpecCalls == Init /\ [][NextCalls]_vars

(***************************************************************************)
(* The contract page: its event handlers and the steps of                  *)
(* handleGenerateContract.  React runs each event handler to its end (or   *)
(* to its first await) and renders before the next event, so a handler is  *)
(* one step.  The form and its buttons are rendered in the editor section  *)
(* only; the section buttons are always rendered.                          *)
(***************************************************************************)
OtherState == <<pc, request, response, now, calls, errorLog, inv>>

\* handleInputChange(field, value)
handleInputChange(f, field, value) == [f EXCEPT !.dealTerms[field] = value]

\* onChange of the brand, influencer, platform and campaign inputs
ChangeText(field, value) ==
    /\ form.activeSection = "editor"
    /\ form' = LET g == handleInputChange(form, field, value)
               IN  IF form.formSubmitted
                   THEN [g EXCEPT !.validationErrors =
                            Spread(form.validationErrors, field, Undefined)]
                   ELSE g
    /\ UNCHANGED OtherState

\* onChange of the total fee input, the user having typed `text`
ChangeTotalFee(text) ==
    /\ form.activeSection = "editor"
    /\ form' = LET g == handleInputChange(form, "total_fee",
                                          Num(TypedNumber(text)))
               IN  IF form.formSubmitted
                   THEN [g EXCEPT !.validationErrors =
                            Spread(form.validationErrors, "total_fee", Undefined)]
                   ELSE g
    /\ UNCHANGED OtherState

\* onChange of the start date input
ChangeStartDate(value) ==
    /\ form.activeSection = "editor"
    /\ form' =
         LET g == handleInputChange(form, "start_date", value)
             prev == form.validationErrors
             start == DateParse(Some(value))
             end == DateParse(Some(form.dealTerms.end_date))
         IN  IF ~form.formSubmitted THEN g
             ELSE IF /\ Shown(prev, "end_date")
                     /\ form.dealTerms.end_date # ""
                     /\ (Lt(start, end) \/ (start # NaN /\ start = end))
             THEN [g EXCEPT !.validationErrors =
                      Spread(Spread(prev, "start_date", Undefined),
                             "end_date", Undefined)]
             ELSE [g EXCEPT !.validationErrors =
                      Spread(prev, "start_date", Undefined)]
    /\ UNCHANGED OtherState

\* onChange of the end date input
ChangeEndDate(value) ==
    /\ form.activeSection = "editor"
    /\ form' =
         LET g == handleInputChange(form, "end_date", value)
             prev == form.validationErrors
         IN  IF ~form.formSubmitted THEN g
             ELSE IF /\ form.dealTerms.start_date # ""
                     /\ StartAfterEnd(form.dealTerms.start_date, value)
             THEN [g EXCEPT !.validationErrors =
                      Spread(prev, "end_date",
                             Some("End date must be after start date"))]
             ELSE [g EXCEPT !.validationErrors =
                      Spread(prev, "end_date", Undefined)]
    /\ UNCHANGED OtherState

\* onChange of an input of deliverable `index` (counted from 1):
\* handleDeliverableChange and the clearing of the deliverables error
ChangeDeliverable(index, field, value) ==
    /\ form.activeSection = "editor"
    /\ index \in 1..Len(form.dealTerms.deliverables)
    /\ form' =
         LET v == IF field = "quantity" THEN TypedNumber(value) ELSE value
             newDeliverables ==
                 [form.dealTerms.deliverables EXCEPT ![index][field] = v]
             g == handleInputChange(form, "deliverables", newDeliverables)
         IN  IF /\ form.formSubmitted
                /\ Shown(form.validationErrors, "deliverables")
                /\ ~hasInvalidDeliverable(newDeliverables)
             THEN [g EXCEPT !.validationErrors =
                      Spread(form.validationErrors, "deliverables", Undefined)]
             ELSE g
    /\ UNCHANGED OtherState

\* the Add Deliverable button
addDeliverable ==
    /\ form.activeSection = "editor"
    /\ Len(form.dealTerms.deliverables) < MaxDeliverables
    /\ form' = [form EXCEPT !.dealTerms.deliverables =
                                Append(@, BlankDeliverable)]
    /\ UNCHANGED OtherState

\* the remove button of deliverable `index` (counted from 1)
removeDeliverable(index) ==
    /\ form.activeSection = "editor"
    /\ RemoveOffered(form.dealTerms.deliverables)
    /\ index \in 1..Len(form.dealTerms.deliverables)
    /\ form' = [form EXCEPT !.dealTerms.deliverables =
                   SubSeq(@, 1, index - 1) \o SubSeq(@, index + 1, Len(@))]
    /\ UNCHANGED OtherState

\* the Reset button
resetForm ==
    /\ form.activeSection = "editor"
    /\ form' = [form EXCEPT !.dealTerms = BlankDealTerms,
                            !.validationErrors = NoErrors,
                            !.formSubmitted = FALSE]
    /\ UNCHANGED OtherState

\* the Editor button
ShowEditor ==
    /\ form' = [form EXCEPT !.activeSection = "editor"]
    /\ UNCHANGED OtherState

\* the Preview button
ShowPreview ==
    /\ PreviewEnabled(form)
    /\ form' = [form EXCEPT !.activeSection = "preview"]
    /\ UNCHANGED OtherState

\* handleGenerateContract from the submit event to its return or to its
\* await fetch(...)
handleGenerateContract ==
    /\ form.activeSection = "editor"
    /\ SubmitEnabled(form)
    /\ form' =
         LET errors == validateForm(form.dealTerms)
             f == [form EXCEPT !.formSubmitted = TRUE,
                               !.validationErrors = errors,
                               !.sent = 0]
         IN  IF HasErrors(errors) THEN f
             ELSE [f EXCEPT !.loading = TRUE,
                            !.error = Undefined,
                            !.net = [pc |-> "fetching",
                                     body |-> RequestBody(form.dealTerms),
                                     reply |-> NoResponse],
                            !.inFlight = @ + 1,
                            !.sent = @ + 1]
    /\ UNCHANGED OtherState

\* the route's answer to `body` when its clock reads t and its two
\* generateContractId calls draw r1 and r2
Served(body, t, r1, r2) ==
    LET v == Validate(body)
    IN  IF v # Passed THEN v.response
        ELSE Generate(body.deal_terms[1], t, r1, t, r2, t, t).response

\* the route answers and the fetch promise resolves
FetchResolves ==
    /\ form.net.pc = "fetching"
    /\ \E r1 \in RandomStrs, r2 \in RandomStrs :
          form' = [form EXCEPT !.net.pc = "resolved",
                               !.net.reply = Served(form.net.body, now, r1, r2)]
    /\ UNCHANGED OtherState

\* the network fails and the fetch promise rejects
FetchRejects ==
    /\ form.net.pc = "fetching"
    /\ form' = [form EXCEPT !.net.pc = "rejected"]
    /\ UNCHANGED OtherState

\* response.ok
Ok(reply) == reply.status \in 200..299

\* mutant of Failed: the request is sent again after a failure
Failed_Retry(f, message) ==
    [f EXCEPT !.error = Some(message),
              !.net = [@ EXCEPT !.pc = "fetching", !.reply = NoResponse],
              !.sent = @ + 1]

\* catch and finally: the message is stored and loading ends
Failed(f, message) ==
    [f EXCEPT !.error = Some(message),
              !.loading = FALSE,
              !.net = NoFetch,
              !.inFlight = @ - 1]

\* mutant of Generated: loading is not switched off after a success
Generated_StillLoading(f, data) ==
    [f EXCEPT !.contractResponse = Some(data),
              !.activeSection = "preview",
              !.formSubmitted = FALSE,
              !.net = NoFetch,
              !.inFlight = @ - 1]

\* the end of the try block and finally: the contract is stored, the
\* preview is shown and loading ends
Generated(f, data) ==
    [f EXCEPT !.contractResponse = Some(data),
              !.activeSection = "preview",
              !.formSubmitted = FALSE,
              !.loading = FALSE,
              !.net = NoFetch,
              !.inFlight = @ - 1]

\* handleGenerateContract resumes after await fetch(...)
AfterFetch ==
    /\ form.net.pc \in {"resolved", "rejected"}
    /\ form' = IF form.net.pc = "rejected"
               THEN Failed(form, "Failed to fetch")
               ELSE IF ~Ok(form.net.reply)
               THEN Failed(form, "Failed to generate contract")
               ELSE [form EXCEPT !.net.pc = "reading"]
    /\ UNCHANGED OtherState

\* handleGenerateContract resumes after await response.json()
AfterJson ==
    /\ form.net.pc = "reading"
    /\ form' = Generated(form, form.net.reply)
    /\ UNCHANGED OtherState

(***************************************************************************)
(* The editor: one session of filling in and submitting the form with one  *)
(* deliverable, up to the first generated contract.  The session starts    *)
(* with the influencer, the platform and the deliverable's type,           *)
(* description and quantity typed in; Reset empties them again.            *)
(***************************************************************************)
\* the form after the user has typed in the fields this session leaves alone
PartlyFilledDealTerms ==
    [BlankDealTerms EXCEPT
        !.influencer_name = "Jamie Lee",
        !.platform = "Instagram",
        !.deliverables = << [type |-> "Instagram Reel",
                             description |-> "Launch video",
                             quantity |-> 2,
                             due_date |-> ""] >>]

InitForm ==
    /\ pc = "idle"
    /\ request = NoRequest
    /\ response = NoResponse
    /\ now = 0
    /\ calls = NoCalls
    /\ errorLog = 0
    /\ inv = [i \in Invocations |-> Idle]
    /\ form = [FormInit EXCEPT !.dealTerms = PartlyFilledDealTerms]

TextInputs(field) ==
    CASE field = "brand_name" -> {"  ", "EcoStyle Apparel"}
      [] field = "influencer_name" -> {"Jamie Lee"}
      [] field = "platform" -> {"Instagram"}
      [] field = "campaign_name" -> {"Sustainable Summer Collection"}

FeeTexts == {<<>>, <<"3", "5", "0", "0">>}

StartDateChoices == {"2024-08-10", "2024-08-31"}
EndDateChoices == {"2024-08-10"}

DeliverableFields == {"type", "description", "quantity", "due_date"}

DeliverableInputs(field) ==
    CASE field = "type" -> {"Instagram Reel"}
      [] field = "description" -> {"Launch video"}
      [] field = "quantity" -> {<<>>, <<"1">>}
      [] field = "due_date" -> {"2024-08-01", "2024-08-10"}

EditText ==
    \E field \in {"brand_name", "campaign_name"} :
    \E value \in TextInputs(field) : ChangeText(field, value)

EditTotalFee == \E text \in FeeTexts : ChangeTotalFee(text)

EditStartDate == \E value \in StartDateChoices : ChangeStartDate(value)

EditEndDate == \E value \in EndDateChoices : ChangeEndDate(value)

EditDueDate ==
    \E value \in DeliverableInputs("due_date") :
        ChangeDeliverable(1, "due_date", value)

NextForm ==
    \/ EditText
    \/ EditTotalFee
    \/ EditStartDate
    \/ EditEndDate
    \/ EditDueDate
    \/ resetForm
    \/ handleGenerateContract
    \/ FetchResolves
    \/ FetchRejects
    \/ AfterFetch
    \/ AfterJson

SpecForm == InitForm /\ [][NextForm]_vars

(***************************************************************************)
(* The page with a filled-in form: submitting, the request, the sections.  *)
(***************************************************************************)
\* the form filled in with the terms of Scenario1
FilledDealTerms ==
    [brand_name |-> "EcoStyle Apparel",
     influencer_name |-> "Jamie Lee",
     platform |-> "Instagram",
     campaign_name |-> "Sustainable Summer Collection",
     total_fee |-> Num(3500),
     deliverables |-> << [type |-> "Instagram Reel",
                          description |-> "Launch video",
                          quantity |-> 2,
                          due_date |-> "2024-08-10"] >>,
     start_date |-> "2024-08-10",
     end_date |-> "2024-08-31"]

InitPage ==
    /\ pc = "idle"
    /\ request = NoRequest
    /\ response = NoResponse
    /\ now = 0
    /\ calls = NoCalls
    /\ errorLog = 0
    /\ inv = [i \in Invocations |-> Idle]
    /\ form = [FormInit EXCEPT !.dealTerms = FilledDealTerms]

NextPage ==
    \/ EditTotalFee
    \/ EditDueDate
    \/ resetForm
    \/ ShowEditor
    \/ ShowPreview
    \/ handleGenerateContract
    \/ FetchResolves
    \/ FetchRejects
    \/ AfterFetch
    \/ AfterJson

\* a settled promise's continuation is run by the event loop
SpecPage ==
    InitPage /\ [][NextPage]_vars /\ WF_vars(AfterFetch) /\ WF_vars(AfterJson)

(***************************************************************************)
(* The list of deliverables under the controls of the form.                *)
(***************************************************************************)
EditBrand == \E value \in TextInputs("brand_name") : ChangeText("brand_name", value)

EditDeliverable ==
    \E index \in 1..MaxDeliverables :
    \E field \in DeliverableFields : \E value \in DeliverableInputs(field) :
        ChangeDeliverable(index, field, value)

RemoveDeliverable == \E index \in 1..MaxDeliverables : removeDeliverable(index)

NextList ==
    \/ addDeliverable
    \/ RemoveDeliverable
    \/ EditDeliverable
    \/ EditBrand
    \/ resetForm

SpecList == Init /\ [][NextList]_vars

(***************************************************************************)
(* The six validation rules, stated on the request.                        *)
(***************************************************************************)
Responded == pc = "responded"

\* the request body is JSON and carries a deal_terms object
HasDealTerms == request.json_ok /\ request.deal_terms # Undefined

DT == request.deal_terms[1]

HasDeliverables == HasDealTerms /\ DT.deliverables # Undefined

DS == DT.deliverables[1]

Empty(x) == x = Undefined \/ x = Some("")

Parses(s) == DateParse(s) # NaN

Day(s) == DateParse(s)[1]

\* the parsed due date of deliverable k is outside [start_date, end_date]
OutOfPeriod(k) ==
    /\ Parses(Some(DS[k].due_date)) /\ Parses(DT.start_date)
    /\ Parses(DT.end_date)
    /\ \/ Day(Some(DS[k].due_date)) < Day(DT.start_date)
       \/ Day(Some(DS[k].due_date)) > Day(DT.end_date)

Unparseable(k) == ~Parses(Some(DS[k].due_date))

\* the request violates rule n of the validator
Violates(n) ==
    /\ HasDealTerms
    /\ CASE n = 1 -> \/ Empty(DT.brand_name)
                      \/ Empty(DT.influencer_name)
                      \/ Empty(DT.platform)
         [] n = 2 -> ~Parses(DT.start_date) \/ ~Parses(DT.end_date)
         [] n = 3 -> /\ Parses(DT.start_date) /\ Parses(DT.end_date)
                     /\ Day(DT.end_date) < Day(DT.start_date)
         [] n = 4 -> HasDeliverables /\ Len(DS) = 0
         [] n = 5 -> HasDeliverables /\ \E k \in 1..Len(DS) : Unparseable(k)
         [] n = 6 -> HasDeliverables /\ \E k \in 1..Len(DS) : OutOfPeriod(k)

Violated == { n \in 1..6 : Violates(n) }

RuleMessage(n) ==
    CASE n = 1 -> "Missing required fields"
      [] n = 2 -> "Invalid date format"
      [] n = 3 -> "End date must be after start date"
      [] n = 4 -> "At least one deliverable is required"
      [] n = 5 -> "Invalid deliverable due date"
      [] n = 6 -> "Deliverable due date must be within campaign period"

Min(S) == CHOOSE n \in S : \A m \in S : n <= m

\* the first deliverable, in list order, that fails rule 5 or rule 6
Offending == { k \in 1..Len(DS) : Unparseable(k) \/ OutOfPeriod(k) }

\* the rule the handler reports: rules 1-4 in order, then the rule that the
\* first offending deliverable fails (validity before bound)
ReportedRule ==
    IF Violated \cap 1..4 # {} THEN Min(Violated \cap 1..4)
    ELSE IF Unparseable(Min(Offending)) THEN 5 ELSE 6

RejectedWith(message) ==
    /\ response.status = 400
    /\ response.error = Some(message)

\* the response body carries an error and nothing else
OnlyError ==
    /\ response.error # Undefined
    /\ response.contract_text = Undefined
    /\ response.contract_id = Undefined
    /\ response.contract_status = Undefined
    /\ response.generated_at = Undefined

(***************************************************************************)
(* Claims.                                                                 *)
(***************************************************************************)

FooterContractId(text) == Tail(text[Len(text) - 1])

\* C2 (as stated): in every success response the Contract ID in the footer
\* of contract_text is the contract_id of the response.
C2_FooterIdIsContractId ==
    (Responded /\ response.status = 200)
        => FooterContractId(response.contract_text[1]) = response.contract_id[1]

\* the request violates a field constraint of the data model that is not
\* one of the six rules
LooseViolation ==
    /\ HasDealTerms
    /\ \/ Empty(DT.campaign_name)
       \/ DT.total_fee = Undefined
       \/ (DT.total_fee # Undefined /\ DT.total_fee[1].n <= 0)
       \/ /\ HasDeliverables
          /\ \E k \in 1..Len(DS) : \/ DS[k].type = ""
                                   \/ DS[k].description = ""
                                   \/ DS[k].quantity < 1

NoContract ==
    /\ response.status # 200
    /\ response.contract_text = Undefined
    /\ response.contract_id = Undefined

\* C3 (as stated): a request that violates any field constraint of the data
\* model (the six rules, or campaign_name, total_fee, deliverable type,
\* description or quantity) is rejected and no contract is generated.
C3_AnyViolationRejected ==
    (Responded /\ (Violated # {} \/ LooseViolation)) => NoContract

\* C3 (amended): a request that violates any of the six handler rules is
\* rejected with status 400 and no contract is generated (neither the ID
\* generator nor the composer runs); the other field constraints are not
\* checked by POST.
C3_SixRulesRejected ==
    (Responded /\ Violated # {})
        => /\ response.status = 400
           /\ NoContract
           /\ calls = NoCalls

\* C3 witness: a rejected request whose only violation is a due date after
\* the end of the period.
C3_Witness ==
    /\ Responded
    /\ Violated = {6}
    /\ ~LooseViolation
    /\ \E k \in 1..Len(DS) : Day(Some(DS[k].due_date)) > Day(DT.end_date)
    /\ response.status = 400

\* C4: every non-200 response has status 400 or 500 and a body with only
\* an error field; a request rejected by validation has called neither
\* generateContractId nor generateContractText; a request that violates
\* exactly one of the six rules gets exactly that rule's message.
C4_FailureHasOnlyError ==
    Responded =>
        /\ response.status # 200 =>
              (response.status \in {400, 500} /\ OnlyError)
        /\ response.status = 400 => calls = NoCalls
        /\ \A n \in 1..6 :
              Violated = {n} => (RejectedWith(RuleMessage(n)) /\ OnlyError)

\* C4 witness: a request whose only violation is an unparseable end date
\* has been rejected.
C4_Witness ==
    /\ Responded
    /\ Violated = {2}
    /\ Parses(DT.start_date)
    /\ HasDeliverables /\ Len(DS) > 0
    /\ response.status = 400

\* C5: if brand_name, influencer_name or platform is missing or empty, the
\* response is 400 "Missing required fields", whatever the other fields.
C5_MissingRequiredFields ==
    (Responded /\ Violates(1)) => RejectedWith("Missing required fields")

\* C5 witness: brand_name is the empty string, the dates do not parse and
\* there is no deliverables array, and the request has been answered.
C5_Witness ==
    /\ Responded
    /\ HasDealTerms
    /\ DT.brand_name = Some("")
    /\ ~Empty(DT.influencer_name) /\ ~Empty(DT.platform)
    /\ Violates(2)
    /\ ~HasDeliverables
    /\ response.status = 400

\* C6: a request that passes the presence check and whose start_date or
\* end_date does not parse is answered 400 "Invalid date format".
C6_InvalidDateFormat ==
    (Responded /\ HasDealTerms /\ ~Violates(1) /\ Violates(2))
        => RejectedWith("Invalid date format")

\* C6 witness: start_date parses, end_date does not, and the request has
\* been answered.
C6_Witness ==
    /\ Responded
    /\ HasDealTerms /\ ~Violates(1)
    /\ Parses(DT.start_date) /\ ~Parses(DT.end_date)
    /\ response.status = 400

\* C7: a request that passes the presence and parseability checks is
\* answered 400 "End date must be after start date" exactly when the
\* parsed end_date is strictly earlier than the parsed start_date; equal
\* dates are not rejected by this rule.
C7_EndBeforeStart ==
    (Responded /\ HasDealTerms /\ ~Violates(1) /\ ~Violates(2))
        => (RejectedWith("End date must be after start date")
               <=> Day(DT.end_date) < Day(DT.start_date))

\* C7 witness: end_date equals start_date and the request was accepted.
C7_Witness ==
    /\ Responded
    /\ HasDealTerms /\ ~Violates(1) /\ ~Violates(2)
    /\ Day(DT.end_date) = Day(DT.start_date)
    /\ response.status = 200

\* C8: a request that passes the presence and date checks and carries an
\* empty deliverables sequence is answered 400 "At least one deliverable
\* is required".
C8_NoDeliverables ==
    (Responded /\ HasDealTerms
        /\ ~Violates(1) /\ ~Violates(2) /\ ~Violates(3) /\ Violates(4))
        => RejectedWith("At least one deliverable is required")

\* C8 witness: an otherwise valid request with deliverables = [] has been
\* answered.
C8_Witness ==
    /\ Responded
    /\ Violated = {4}
    /\ ~LooseViolation
    /\ response.status = 400

\* C9: a request that passes rules 1-5 is answered 400 "Deliverable due
\* date must be within campaign period" exactly when some deliverable's
\* parsed due_date is strictly before start_date or strictly after
\* end_date; a due_date equal to start_date or to end_date is accepted.
C9_DueDateWithinPeriod ==
    (Responded /\ HasDeliverables /\ Violated \cap 1..5 = {})
        => (RejectedWith("Deliverable due date must be within campaign period")
               <=> \E k \in 1..Len(DS) :
                      \/ Day(Some(DS[k].due_date)) < Day(DT.start_date)
                      \/ Day(Some(DS[k].due_date)) > Day(DT.end_date))

\* C9 witness: one deliverable is due on start_date, another on a later
\* end_date, and the request was accepted.
C9_Witness ==
    /\ Responded
    /\ HasDeliverables /\ Violated = {}
    /\ Day(DT.start_date) < Day(DT.end_date)
    /\ \E j, k \in 1..Len(DS) :
          /\ Day(Some(DS[j].due_date)) = Day(DT.start_date)
          /\ Day(Some(DS[k].due_date)) = Day(DT.end_date)
    /\ response.status = 200

C11_SuccessIsDraft ==
    /\ response.contract_status # Some("final")
    /\ (Responded /\ response.error = Undefined) =>
          /\ response.status = 200
          /\ response.contract_text # Undefined
          /\ response.contract_id # Undefined
          /\ response.contract_status = Some("draft")
          /\ response.generated_at # Undefined

\* C11 witness: a request with two deliverables has been answered with a
\* contract.
C11_Witness ==
    /\ Responded
    /\ response.status = 200
    /\ Len(DS) = 2
    /\ response.contract_status = Some("draft")

\* the request fails for a reason that is none of the six rules: the body
\* is not JSON, it has no deal_terms, the deliverables are missing when the
\* handler reaches them, or the composer throws on a missing total_fee
OtherFailure ==
    \/ ~request.json_ok
    \/ request.deal_terms = Undefined
    \/ (Violated \cap 1..3 = {} /\ ~HasDeliverables)
    \/ (Violated = {} /\ HasDeliverables /\ DT.total_fee = Undefined)

C13_StatusesAndMessages ==
    Responded =>
        /\ response.status \in {200, 400, 500}
        /\ response.status = 400 =>
              \E n \in 1..6 : response.error = Some(RuleMessage(n))

\* C13 witness: a request has been rejected with the date order message.
C13_Witness ==
    /\ Responded
    /\ Violated = {3}
    /\ RejectedWith(RuleMessage(3))

\* the "Generated on" timestamp of the footer of a contract text
FooterGeneratedOn(text) == text[Len(text)][2]

\* C15 (as stated): in every success response the "Generated on" timestamp
\* in the footer of contract_text is the generated_at of the response.
C15_FooterTimeIsGeneratedAt ==
    (Responded /\ response.status = 200)
        => FooterGeneratedOn(response.contract_text[1]) = response.generated_at[1]

\* C16: a request with total_fee <= 0 that satisfies the six handler rules
\* is not rejected: the composer runs and the answer is a 200 draft.
C16_NonPositiveFeeAccepted ==
    (Responded /\ HasDeliverables /\ Violated = {}
        /\ DT.total_fee # Undefined /\ DT.total_fee[1].n <= 0)
        => /\ response.status = 200
           /\ response.contract_status = Some("draft")
           /\ calls.textCalls = 1

\* C16 witness: a request with total_fee = -500 got a contract.
C16_Witness ==
    /\ Responded
    /\ HasDeliverables /\ Violated = {}
    /\ DT.total_fee = Some(Num(0 - 500))
    /\ response.status = 200

\* the payment-milestone lines of a contract text
Milestones(text) == SelectSeq(text, LAMBDA line : line[1] = "   - 50% ($")

\* x + y for two numbers of the same unit
Sum(x, y) ==
    CASE x.unit = "one" -> Num(x.n + y.n)
      [] x.unit = "half" ->
             IF (x.n + y.n) % 2 = 0 THEN Num((x.n + y.n) \div 2)
             ELSE [unit |-> "half", n |-> x.n + y.n]
      [] x.unit = "min" -> Tiny(x.n + y.n)

\* total_fee * 0.5 is exact: total_fee is not an odd multiple of
\* Number.MIN_VALUE
HalfIsExact(x) == ~(x.unit = "min" /\ x.n % 2 = 1)

\* the two milestone amounts of the text are total_fee * 0.5 as printed
MilestonesShowHalf ==
    LET shown == Milestones(response.contract_text[1])
        half == MulHalf(DT.total_fee[1])
    IN  /\ Len(shown) = 2
        /\ shown[1][2] = toLocaleString(half)
        /\ shown[2][2] = toLocaleString(half)

\* C18 (as stated): for every total_fee F the two milestone amounts of the
\* text are both F * 0.5, and the two amounts before formatting sum to F.
C18_HalvesSumToFee ==
    (Responded /\ response.status = 200)
        => /\ MilestonesShowHalf
           /\ Sum(MulHalf(DT.total_fee[1]), MulHalf(DT.total_fee[1]))
                 = DT.total_fee[1]

\* C18 (amended): for every total_fee F the two milestone amounts of the
\* text are both F * 0.5 as printed by toLocaleString, and the two amounts
\* before formatting sum to F whenever F * 0.5 is exact, that is for every
\* F that is not an odd multiple of Number.MIN_VALUE.
C18_ExactHalvesSumToFee ==
    (Responded /\ response.status = 200)
        => /\ MilestonesShowHalf
           /\ HalfIsExact(DT.total_fee[1]) =>
                 Sum(MulHalf(DT.total_fee[1]), MulHalf(DT.total_fee[1]))
                    = DT.total_fee[1]

\* C18 witness: a contract for total_fee = 3501 shows 1,750.5 twice.
C18_Witness ==
    /\ Responded
    /\ response.status = 200
    /\ DT.total_fee = Some(Num(3501))
    /\ Milestones(response.contract_text[1])[1][2] = "1,750.5"
    /\ Milestones(response.contract_text[1])[2][2] = "1,750.5"

\* the position of a line in a contract text
LineIndex(text, line) == CHOOSE i \in 1..Len(text) : text[i] = line

\* C19: the DELIVERABLES section lists exactly the input deliverables, one
\* entry per element and in input order, numbered 1..n, entry k showing
\* the type, quantity, description and due date of the k-th deliverable.
C19_DeliverablesInOrder ==
    (Responded /\ response.status = 200)
        => LET text == response.contract_text[1]
               first == LineIndex(text, <<"   The Influencer agrees to provide the following deliverables:">>)
               last == LineIndex(text, <<"3. COMPENSATION">>)
           IN  /\ text[first - 1] = <<"2. DELIVERABLES">>
               /\ last = first + 4 * Len(DS) + 2
               /\ text[last - 1] = <<"">>
               /\ \A k \in 1..Len(DS) :
                     LET at == first + 4 * (k - 1)
                     IN  /\ text[at + 1] = <<"">>
                         /\ text[at + 2] =
                               <<ToString(k), ". ", DS[k].type, " (Quantity: ",
                                 ToString(DS[k].quantity), ")">>
                         /\ text[at + 3] =
                               <<"   Description: ", DS[k].description>>
                         /\ text[at + 4] =
                               <<"   Due Date: ",
                                 formatDate(Some(DS[k].due_date))>>

\* C19 witness: a contract for two different deliverables, the later due
\* one listed first.
C19_Witness ==
    /\ Responded
    /\ response.status = 200
    /\ Len(DS) = 2
    /\ DS[1].type = "Blog Post" /\ DS[2].type = "Instagram Story"

(***************************************************************************)
(* Claims about more than one invocation.                                  *)
(***************************************************************************)
\* invocation i has been answered with a contract
Succeeded(i) == inv[i].pc = "responded" /\ inv[i].response.status = 200

\* C14 (as stated): any two successful POST requests, also two with the
\* same deal_terms served in the same millisecond, get different
\* contract_id values.
C14_ContractIdsDiffer ==
    \A i, j \in Invocations :
        (i # j /\ Succeeded(i) /\ Succeeded(j))
            => inv[i].response.contract_id # inv[j].response.contract_id

\* C14 (amended): two successful POST requests get different contract_id
\* values unless their generateContractId calls read the same millisecond
\* and draw the same random digits, in which case the two IDs are equal.
C14_ContractIdsDifferUnlessSameDraw ==
    \A i, j \in Invocations :
        (i # j /\ Succeeded(i) /\ Succeeded(j))
            => (inv[i].response.contract_id = inv[j].response.contract_id
                   <=> (inv[i].t = inv[j].t /\ inv[i].r = inv[j].r))

\* C14 witness: two requests with the same deal_terms served in the same
\* millisecond with different random digits, and with different IDs.
C14_Witness ==
    /\ Succeeded("first") /\ Succeeded("second")
    /\ inv["first"].request = inv["second"].request
    /\ inv["first"].t = inv["second"].t
    /\ inv["first"].r # inv["second"].r
    /\ inv["first"].response.contract_id # inv["second"].response.contract_id

\* a contract text without its two footer lines
WithoutFooter(text) == SubSeq(text, 1, Len(text) - 2)

\* the two footer lines of a contract text
Footer(text) == SubSeq(text, Len(text) - 1, Len(text))

\* C17: two compositions of the same deal terms differ at most in the two
\* footer lines (Contract ID and Generated on), and are identical when the
\* generated ID and the clock reading are the same.
C17_TextDeterminedByTermsIdAndTime ==
    \A i, j \in Invocations :
        (Succeeded(i) /\ Succeeded(j)
            /\ inv[i].request.deal_terms = inv[j].request.deal_terms)
            => LET a == inv[i].response.contract_text[1]
                   b == inv[j].response.contract_text[1]
               IN  /\ WithoutFooter(a) = WithoutFooter(b)
                   /\ Footer(a)[1][1] = "Contract ID: "
                   /\ Footer(a)[2][1] = "Generated on: "
                   /\ Footer(a) = Footer(b) => a = b

\* C17 witness: two contracts for the same deal terms with different IDs
\* and different timestamps in their footers.
C17_Witness ==
    /\ Succeeded("first") /\ Succeeded("second")
    /\ inv["first"].request = inv["second"].request
    /\ LET a == Footer(inv["first"].response.contract_text[1])
           b == Footer(inv["second"].response.contract_text[1])
       IN  a[1] # b[1] /\ a[2] # b[2]

C21_ValidatedRequestGets200 ==
    (Responded /\ HasDeliverables /\ Violated = {}) => response.status = 200

(***************************************************************************)
(* Claims about the contract page.                                         *)
(***************************************************************************)
\* the deal terms of the request the page is waiting for or has just got
\* answered
SentTerms == form.net.body.deal_terms[1]

\* the route has answered the page's request
Answered == form.net.pc \in {"resolved", "reading"}

\* C22 (as stated): every DealTerms that validateForm accepts is answered
\* by POST with status 200: no request the form sends is rejected.
C22_FormAcceptedGets200 ==
    Answered => form.net.reply.status = 200

\* start_date is a later day than end_date
StartsAfterEnd(d) ==
    /\ Parses(Some(d.start_date)) /\ Parses(Some(d.end_date))
    /\ Day(Some(d.start_date)) > Day(Some(d.end_date))

\* the form's dealTerms d have one of the defects the form is to catch
FormInvalid(d) ==
    \/ d.brand_name = "" \/ d.influencer_name = ""
    \/ d.platform = "" \/ d.campaign_name = ""
    \/ d.start_date = "" \/ d.end_date = ""
    \/ StartsAfterEnd(d)
    \/ d.total_fee.n <= 0
    \/ \E k \in 1..Len(d.deliverables) :
          \/ d.deliverables[k].type = ""
          \/ d.deliverables[k].description = ""
          \/ d.deliverables[k].due_date = ""
          \/ d.deliverables[k].quantity <= 0

\* the deal terms of a request body, as the form held them
Unwrapped(t) ==
    [brand_name |-> t.brand_name[1],
     influencer_name |-> t.influencer_name[1],
     platform |-> t.platform[1],
     campaign_name |-> t.campaign_name[1],
     total_fee |-> t.total_fee[1],
     deliverables |-> t.deliverables[1],
     start_date |-> t.start_date[1],
     end_date |-> t.end_date[1]]

\* C23: the page has a request out only for deal terms without a
\* validation error (no empty brand_name, influencer_name, platform or
\* campaign_name, no missing date, start not after end, total_fee > 0, every
\* deliverable complete), and a submit of deal terms with such an error
\* stores the errors found, issues no request and leaves loading false.
C23_InvalidFormSendsNothing ==
    /\ [](form.net.pc # "none" => ~FormInvalid(Unwrapped(SentTerms)))
    /\ [][(handleGenerateContract /\ FormInvalid(form.dealTerms))
             => /\ form'.formSubmitted
                /\ HasErrors(form'.validationErrors)
                /\ form'.validationErrors = validateForm(form.dealTerms)
                /\ form'.net = NoFetch
                /\ form'.inFlight = 0
                /\ form'.sent = 0
                /\ ~form'.loading]_vars

\* C23 witness: a submit with total_fee 0 and start after end has stored
\* both errors and sent nothing.
C23_Witness ==
    /\ form.formSubmitted
    /\ form.dealTerms.total_fee = Num(0)
    /\ StartsAfterEnd(form.dealTerms)
    /\ Shown(form.validationErrors, "total_fee")
    /\ form.validationErrors["end_date"] = Some("End date must be after start date")
    /\ form.net = NoFetch
    /\ ~form.loading

\* C24 (as stated): after a submit that failed the form's validation, once
\* the user has corrected every invalid field (the deal terms pass
\* validateForm and no error message is left on display) the submit button
\* is enabled again.
C24_CorrectedFormCanBeSubmitted ==
    (/\ form.activeSection = "editor"
     /\ form.formSubmitted
     /\ ~form.loading
     /\ ~HasErrors(validateForm(form.dealTerms))
     /\ \A k \in ErrorKeys : ~Shown(form.validationErrors, k))
        => SubmitEnabled(form)

\* the due date of the first deliverable of the form's dealTerms d is
\* before the campaign starts
DueBeforeStart(d) ==
    /\ Parses(Some(d.deliverables[1].due_date)) /\ Parses(Some(d.start_date))
    /\ Day(Some(d.deliverables[1].due_date)) < Day(Some(d.start_date))

\* C25: a validation failure of POST reaches the page as a 400 response
\* and nothing is retried: between two submits of the user the page issues
\* at most one request, and after a response that is not OK it waits for
\* no request.
C25_NoAutomaticRetry ==
    /\ form.sent <= 1
    /\ (Answered /\ DueBeforeStart(Unwrapped(SentTerms)))
          => form.net.reply.status = 400
    /\ (form.error # Undefined /\ ~form.loading) => form.net = NoFetch

\* C25 witness: the one request of a submit was rejected for its due date,
\* the failure has been stored and no request is out.
C25_Witness ==
    /\ DueBeforeStart(form.dealTerms)
    /\ form.error = Some("Failed to generate contract")
    /\ form.sent = 1
    /\ form.net = NoFetch
    /\ ~form.loading

\* the fetch of the page has settled and handleGenerateContract has not
\* yet resumed
Settled == form.net.pc \in {"resolved", "rejected"}

\* C26: loading is true only while a generate request is in flight, and
\* every request that settles (with a contract, with a response that is
\* not OK, or with a network error) is followed by loading being false.
C26_LoadingEndsWithRequest ==
    /\ [](form.loading => form.net.pc # "none")
    /\ (Settled ~> ~form.loading)

\* C26 witness: a request failed on the network and loading is false again.
C26_Witness ==
    /\ form.error = Some("Failed to fetch")
    /\ form.sent = 1
    /\ form.net = NoFetch
    /\ ~form.loading

\* C27: at most one generate request is in flight, and while loading is
\* true no submit can be made.
C27_OneRequestInFlight ==
    /\ form.inFlight <= 1
    /\ form.loading => ~ENABLED handleGenerateContract

\* C27 witness: a request is in flight while the editor shows deal terms
\* that would pass the form's validation.
C27_Witness ==
    /\ form.loading
    /\ form.inFlight = 1
    /\ form.net.pc = "fetching"
    /\ form.activeSection = "editor"
    /\ ~FormInvalid(form.dealTerms)

\* C28: the preview section is shown only when there is a contract
\* (contractResponse is not null), and a contract once stored is never
\* reset to null.
C28_PreviewHasContract ==
    /\ [](form.activeSection = "preview" => form.contractResponse # Undefined)
    /\ [][form.contractResponse # Undefined
             => form'.contractResponse # Undefined]_vars

\* C28 witness: the preview is shown with a contract after a later submit
\* failed the form's validation.
C28_Witness ==
    /\ form.activeSection = "preview"
    /\ form.contractResponse # Undefined
    /\ form.formSubmitted
    /\ HasErrors(form.validationErrors)

\* C29 (as stated): whenever a generate request has failed, its error
\* message is on display or can be brought on display: the page shows the
\* preview section, which renders the error, or the Preview button is
\* enabled.
C29_ErrorCanBeSeen ==
    form.error # Undefined
        => (form.activeSection = "preview" \/ PreviewEnabled(form))

\* C30: under add, remove and edit deliverable, edit field and reset, the
\* form's dealTerms.deliverables has at least one element; no deliverable
\* can be removed from a list of one, and a reset leaves exactly one.
C30_AtLeastOneDeliverable ==
    /\ [](Len(form.dealTerms.deliverables) >= 1)
    /\ [](Len(form.dealTerms.deliverables) = 1 => ~ENABLED RemoveDeliverable)
    /\ [][resetForm => Len(form'.dealTerms.deliverables) = 1]_vars

\* C30 witness: a list of one deliverable whose quantity and due date the
\* user has edited.
C30_Witness ==
    /\ Len(form.dealTerms.deliverables) = 1
    /\ form.dealTerms.deliverables[1].due_date = "2024-08-10"
    /\ form.dealTerms.deliverables[1].type = ""
    /\ form.dealTerms.deliverables[1].quantity = 0

====
